---- MODULE Spec2Model ----
(***************************************************************************)
(* A model of funcat/func.py: the indicator kernel of funcat.              *)
(*                                                                         *)
(* A series is a numpy array; here it is a TLA+ sequence, and the Python   *)
(* index i of an array is position i + 1 of the sequence (see At).         *)
(* A float64 is a record [k, n, d]: k = "fin" is the rational n / d in     *)
(* lowest terms with d > 0, k = "nan", "pinf", "ninf" are NaN, +Inf, -Inf. *)
(* Finite values are exact rationals (no rounding) of magnitude at most    *)
(* FltMax; an arithmetic result beyond FltMax overflows to an infinity, as *)
(* IEEE arithmetic does beyond the largest double.                         *)
(***************************************************************************)
EXTENDS Integers, Sequences, FiniteSets, TLC

VARIABLES
    buf,    \* the array held by the caller's NumericSeries (s.series, s1.series, high.series)
    low,    \* the array of a second NumericSeries (CCISeries' low, CrossOver's s2)
    close,  \* the array of a third NumericSeries (CCISeries' close)
    cond,   \* the array held by the caller's BoolSeries (cond.series)
    call,   \* the operation last called and its scalar arguments
    pre,    \* buf, low and close as they were when that operation was called
    ret,    \* what that operation produced: a new series, an index, or a FormulaException
    z_in_p, \* troughbars: the pivot values [z[i] for i in peers]
    m,      \* troughbars: its argument m
    pc,     \* troughbars: position in the function body
    i,      \* troughbars: the loop variable
    count   \* troughbars: the local counter of decreases seen

vars == <<buf, low, close, cond, call, pre, ret, z_in_p, m, pc, i, count>>

----------------------------------------------------------------------------
(* Bounds of the model *)

MaxLen == 3
MaxAuxLen == 1
MaxN == 3
FltMax == 100
MaxCondLen == 5
MaxNeg == 2
MaxWinLen == 5
MaxPivots == 5
MaxM == 3

----------------------------------------------------------------------------
(* float64 values *)

Abs(x) == IF x < 0 THEN -x ELSE x

RECURSIVE GCD(_, _)
GCD(a, b) == IF b = 0 THEN a ELSE GCD(b, a % b)

NaN == [k |-> "nan", n |-> 0, d |-> 1]
PInf == [k |-> "pinf", n |-> 0, d |-> 1]
NInf == [k |-> "ninf", n |-> 0, d |-> 1]

\* The float64 nearest to num / den (den > 0): the rational itself, or an
\* infinity when its magnitude is beyond the largest finite value.
Rat(num, den) ==
    IF num > FltMax * den THEN PInf
    ELSE IF -num > FltMax * den THEN NInf
    ELSE LET g == GCD(Abs(num), den)
         IN  [k |-> "fin", n |-> num \div g, d |-> den \div g]

Fin(x) == Rat(x, 1)

IsNaN(x) == x.k = "nan"
IsFinite(x) == x.k = "fin"

\* x < y of float64: false as soon as either is NaN.
FLt(x, y) ==
    CASE IsNaN(x) \/ IsNaN(y) -> FALSE
      [] x.k = "pinf" -> FALSE
      [] y.k = "ninf" -> FALSE
      [] x.k = "ninf" -> TRUE
      [] y.k = "pinf" -> TRUE
      [] OTHER -> x.n * y.d < y.n * x.d

\* x == y of float64: NaN equals nothing.
FEq(x, y) == ~IsNaN(x) /\ ~IsNaN(y) /\ x = y

FGt(x, y) == FLt(y, x)
FLe(x, y) == FLt(x, y) \/ FEq(x, y)

\* c * x for a Python int c and a float64 x.
FMulInt(c, x) ==
    CASE IsNaN(x) -> NaN
      [] IsFinite(x) -> Rat(c * x.n, x.d)
      [] OTHER -> IF c = 0 THEN NaN
                  ELSE IF (c > 0) = (x.k = "pinf") THEN PInf ELSE NInf

\* x + y of float64.
FAdd(x, y) ==
    CASE IsNaN(x) \/ IsNaN(y) -> NaN
      [] IsFinite(x) /\ IsFinite(y) -> Rat(x.n * y.d + y.n * x.d, x.d * y.d)
      [] IsFinite(x) -> y
      [] IsFinite(y) -> x
      [] OTHER -> IF x = y THEN x ELSE NaN

\* x / c for a float64 x and a Python int c: numpy's true division, which
\* for c = 0 warns and yields an infinity or NaN; it does not raise.
FDivInt(x, c) ==
    CASE IsNaN(x) -> NaN
      [] c = 0 -> IF IsFinite(x)
                  THEN (IF x.n > 0 THEN PInf ELSE IF x.n < 0 THEN NInf ELSE NaN)
                  ELSE x
      [] IsFinite(x) -> IF c > 0 THEN Rat(x.n, x.d * c) ELSE Rat(-x.n, x.d * (-c))
      [] OTHER -> IF (c > 0) = (x.k = "pinf") THEN PInf ELSE NInf

\* np.abs of one element.
FAbs(x) ==
    CASE IsNaN(x) -> NaN
      [] IsFinite(x) -> Rat(Abs(x.n), x.d)
      [] OTHER -> PInf

----------------------------------------------------------------------------
(* Arrays *)

\* a[j] for a Python index 0 <= j < len(a).
At(a, j) == a[j + 1]

\* a[lo:hi] for 0 <= lo, hi <= len(a).
Slice(a, lo, hi) == IF hi <= lo THEN <<>> ELSE SubSeq(a, lo + 1, hi)

Min2(x, y) == IF x < y THEN x ELSE y
Max2(x, y) == IF x > y THEN x ELSE y

\* The position a Python slice bound b denotes in an array of length len.
SliceBound(b, len) == IF b < 0 THEN Max2(len + b, 0) ELSE Min2(b, len)

\* a[b:]
SliceFrom(a, b) == Slice(a, SliceBound(b, Len(a)), Len(a))

\* a[:b]
SliceTo(a, b) == Slice(a, 0, SliceBound(b, Len(a)))

\* a[a == v] = w : numpy's masked assignment, on the array itself.
MaskAssign(a, v, w) == [j \in 1..Len(a) |-> IF FEq(a[j], v) THEN w ELSE a[j]]

SeqsUpTo(S, lo, hi) == UNION {[1..len -> S] : len \in lo..hi}

----------------------------------------------------------------------------
(* Input domains *)

Vals == {Fin(-3), Fin(0), Fin(3), Fin(6), NaN, PInf, NInf}
AuxVals == {Fin(0), PInf}

NoCall == [op |-> "none", n |-> 0]
NoRet == [kind |-> "none", fn |-> "", val |-> <<>>, kwargs |-> <<>>]

\* A new NumericSeries / BoolSeries holding array a.
Series(a, kw) == [kind |-> "series", fn |-> "", val |-> a, kwargs |-> kw]

\* A new NumericSeries holding what the TA-Lib function fn returned for the
\* array a: TA-Lib is an external library and its result is left uninterpreted.
Applied(fn, a, kw) == [kind |-> "applied", fn |-> fn, val |-> a, kwargs |-> kw]

\* raise FormulaException(e)
FormulaException == [kind |-> "error", fn |-> "FormulaException", val |-> <<>>, kwargs |-> <<>>]

\* return i (troughbars)
Index(j) == [kind |-> "index", fn |-> "", val |-> <<j>>, kwargs |-> <<>>]

Snapshot == [buf |-> buf, low |-> low, close |-> close]

\* The value of i before the for statement of troughbars first binds it.
Unbound == -1

ZigIdle == z_in_p = <<>> /\ m = 0 /\ pc = "idle" /\ i = Unbound /\ count = 0

----------------------------------------------------------------------------
(* The transform family: OneArgumentSeries, TwoArgumentSeries / SMASeries,  *)
(* CCISeries, SumSeries, AbsSeries                                          *)

\* series.series, of funcat.time_series: the array the NumericSeries holds,
\* itself and not a copy of it.
SeriesArray(a) == a

\* series[series == np.inf] = np.nan
InfToNaN(a) == MaskAssign(a, PInf, NaN)

\* series[series == np.inf] = 0 ; series[series == -np.inf] = 0
InfToZero(a) == MaskAssign(MaskAssign(a, PInf, Fin(0)), NInf, Fin(0))

\* np.nan_to_num of one element: NaN becomes 0, +Inf the largest finite
\* float64 and -Inf the most negative finite float64.
NanToNum1(x) ==
    CASE x.k = "nan" -> Fin(0)
      [] x.k = "pinf" -> Fin(FltMax)
      [] x.k = "ninf" -> Fin(-FltMax)
      [] OTHER -> x

\* np.nan_to_num(series).copy()
NanToNum(a) == [j \in 1..Len(a) |-> NanToNum1(a[j])]

\* One pass of SMASeries.func's loop body, from Python index j to len - 1:
\* results[j] = ((n - 1) * results[j - 1] + results[j]) / n
RECURSIVE SMALoop(_, _, _)
SMALoop(results, j, n) ==
    IF j >= Len(results) THEN results
    ELSE SMALoop([results EXCEPT ![j + 1] =
                      FDivInt(FAdd(FMulInt(n - 1, At(results, j - 1)), At(results, j)), n)],
                 j + 1, n)

\* SMASeries.func(series, n, _)
SMAFunc(series, n) == SMALoop(NanToNum(series), 1, n)

\* OneArgumentSeries.__init__(series, arg) for cls in MA, WMA, EMA, STDDEV:
\* the Inf substitution is made on series.series itself, then the TA-Lib
\* function of the class is applied; whatever it raises becomes a
\* FormulaException.
OneArgumentSeries(cls, arg, raises) ==
    /\ call' = [op |-> cls, n |-> arg]
    /\ pre' = Snapshot
    /\ buf' = InfToNaN(SeriesArray(buf))
    /\ ret' = IF raises THEN FormulaException
              ELSE Applied(cls, InfToNaN(buf), <<arg>>)
    /\ UNCHANGED <<low, close, cond, z_in_p, m, pc, i, count>>

\* SMASeries(series, arg1, arg2): TwoArgumentSeries.__init__ with
\* SMASeries.func, which raises nothing on a float64 array.
SMASeries(arg1, arg2) ==
    /\ call' = [op |-> "SMA", n |-> arg1]
    /\ pre' = Snapshot
    /\ buf' = InfToNaN(SeriesArray(buf))
    /\ ret' = Series(SMAFunc(InfToNaN(buf), arg1), <<arg1, arg2>>)
    /\ UNCHANGED <<low, close, cond, z_in_p, m, pc, i, count>>

\* CCISeries(high, low, close)
CCISeries(raises) ==
    /\ call' = [op |-> "CCI", n |-> 0]
    /\ pre' = Snapshot
    /\ buf' = InfToNaN(SeriesArray(buf))
    /\ low' = InfToNaN(SeriesArray(low))
    /\ close' = InfToNaN(SeriesArray(close))
    /\ ret' = IF raises THEN FormulaException
              ELSE Applied("CCI", InfToNaN(buf) \o InfToNaN(low) \o InfToNaN(close), <<>>)
    /\ UNCHANGED <<cond, z_in_p, m, pc, i, count>>

\* SumSeries(series, period)
SumSeries(period, raises) ==
    /\ call' = [op |-> "SUM", n |-> period]
    /\ pre' = Snapshot
    /\ buf' = InfToZero(SeriesArray(buf))
    /\ ret' = IF raises THEN FormulaException
              ELSE Applied("SUM", InfToZero(buf), <<period>>)
    /\ UNCHANGED <<low, close, cond, z_in_p, m, pc, i, count>>

\* AbsSeries(series)
AbsSeries ==
    /\ call' = [op |-> "ABS", n |-> 0]
    /\ pre' = Snapshot
    /\ buf' = InfToZero(SeriesArray(buf))
    /\ ret' = Series([j \in 1..Len(buf) |-> FAbs(InfToZero(buf)[j])], <<>>)
    /\ UNCHANGED <<low, close, cond, z_in_p, m, pc, i, count>>

OneArgumentClasses == {"MA", "WMA", "EMA", "STDDEV"}
TransformOps == OneArgumentClasses \cup {"SMA", "CCI", "SUM", "ABS"}

InitTransform ==
    /\ buf \in SeqsUpTo(Vals, 0, MaxLen)
    /\ low \in SeqsUpTo(AuxVals, 0, MaxAuxLen)
    /\ close \in SeqsUpTo(AuxVals, 0, MaxAuxLen)
    /\ cond = <<>>
    /\ call = NoCall
    /\ pre = Snapshot
    /\ ret = NoRet
    /\ ZigIdle

NextTransform ==
    \/ \E cls \in OneArgumentClasses, arg \in 1..MaxN, raises \in BOOLEAN :
           OneArgumentSeries(cls, arg, raises)
    \/ \E arg1 \in 0..MaxN : SMASeries(arg1, 1)
    \/ \E raises \in BOOLEAN : CCISeries(raises)
    \/ \E period \in 1..MaxN, raises \in BOOLEAN : SumSeries(period, raises)
    \/ AbsSeries

SpecTransform == InitTransform /\ [][NextTransform]_vars

----------------------------------------------------------------------------
(* count and every *)

\* len(s[s == True])
NumTrue(s) == Cardinality({j \in 1..Len(s) : s[j] = TRUE})

\* np.full(size, 0, ...) raises ValueError for a negative size, and the
\* except clause turns it into a FormulaException.
NpFullRaisesNever(size) == FALSE

NpFullRaises(size) == size < 0

\* np.full(size, 0, dtype=int)
Zeros(size) == [j \in 1..size |-> 0]

\* count's loop from Python index j down to 1 (range(size - 1, 0, -1)):
\*     s = series[-n:] ; result[i] = len(s[s == True]) ; series = series[:-1]
RECURSIVE CountLoop(_, _, _, _)
CountLoop(series, result, j, n) ==
    IF j < 1 THEN result
    ELSE CountLoop(SliceTo(series, -1),
                   [result EXCEPT ![j + 1] = NumTrue(SliceFrom(series, -n))],
                   j - 1, n)

\* count(cond, n), as the value it returns or the exception it raises.
CountFunc(series, n) ==
    LET size == Len(series) - n
    IN  IF NpFullRaises(size) THEN FormulaException
        ELSE Series(CountLoop(series, Zeros(size), size - 1, n), <<>>)

\* NumericSeries == scalar, of the expression layer: elementwise.
SeriesEqScalar(r, n) ==
    IF r.kind = "error" THEN r
    ELSE Series([j \in 1..Len(r.val) |-> r.val[j] = n], <<>>)

\* every(cond, n): count(cond, n) == n
EveryFunc(series, n) == SeriesEqScalar(CountFunc(series, n), n)

Count(n) ==
    /\ call.op = "none"
    /\ call' = [op |-> "count", n |-> n]
    /\ ret' = CountFunc(cond, n)
    /\ UNCHANGED <<buf, low, close, cond, pre, z_in_p, m, pc, i, count>>

Every(n) ==
    /\ call.op = "none"
    /\ call' = [op |-> "every", n |-> n]
    /\ ret' = EveryFunc(cond, n)
    /\ UNCHANGED <<buf, low, close, cond, pre, z_in_p, m, pc, i, count>>

InitCount ==
    /\ buf = <<>> /\ low = <<>> /\ close = <<>>
    /\ cond \in SeqsUpTo(BOOLEAN, 0, MaxCondLen)
    /\ call = NoCall
    /\ pre = Snapshot
    /\ ret = NoRet
    /\ ZigIdle

NextCount ==
    \/ \E n \in (-MaxNeg)..(MaxCondLen + 1) : Count(n)
    \/ \E n \in (-MaxNeg)..(MaxCondLen + 1) : Every(n)

SpecCount == InitCount /\ [][NextCount]_vars

----------------------------------------------------------------------------
(* hhv, llv, hhvbars, llvbars *)

\* rolling_window(series, n), of funcat.utils: the windows of n consecutive
\* elements, sliding by one.
RollingWindow(a, n) == [k \in 1..(Len(a) - n + 1) |-> SubSeq(a, k, k + n - 1)]

HasNaN(w) == \E j \in 1..Len(w) : IsNaN(w[j])

\* np.max of one row: NaN if the row holds a NaN.
NpMax(w) ==
    IF HasNaN(w) THEN NaN
    ELSE w[CHOOSE j \in 1..Len(w) : \A l \in 1..Len(w) : ~FLt(w[j], w[l])]

\* np.min of one row.
NpMin(w) ==
    IF HasNaN(w) THEN NaN
    ELSE w[CHOOSE j \in 1..Len(w) : \A l \in 1..Len(w) : ~FLt(w[l], w[j])]

FirstIndex(S) == (CHOOSE j \in S : \A l \in S : j <= l) - 1
LastIndex(S) == (CHOOSE j \in S : \A l \in S : j >= l) - 1

NpArgMaxLast(w) ==
    IF HasNaN(w) THEN FirstIndex({j \in 1..Len(w) : IsNaN(w[j])})
    ELSE LastIndex({j \in 1..Len(w) : \A l \in 1..Len(w) : ~FLt(w[j], w[l])})

\* np.argmax of one row: the first index of the maximum, of the first NaN if
\* the row holds one.
NpArgMax(w) ==
    IF HasNaN(w) THEN FirstIndex({j \in 1..Len(w) : IsNaN(w[j])})
    ELSE FirstIndex({j \in 1..Len(w) : \A l \in 1..Len(w) : ~FLt(w[j], w[l])})

\* np.argmin of one row.
NpArgMin(w) ==
    IF HasNaN(w) THEN FirstIndex({j \in 1..Len(w) : IsNaN(w[j])})
    ELSE FirstIndex({j \in 1..Len(w) : \A l \in 1..Len(w) : ~FLt(w[l], w[j])})

\* hhv(s, n)
HhvFunc(series, n) ==
    IF NpFullRaises(Len(series) - n) THEN FormulaException
    ELSE LET rows == RollingWindow(series, n)
         IN  Series([k \in 1..Len(rows) |-> NpMax(rows[k])], <<>>)

\* llv(s, n)
LlvFunc(series, n) ==
    IF NpFullRaises(Len(series) - n) THEN FormulaException
    ELSE LET rows == RollingWindow(series, n)
         IN  Series([k \in 1..Len(rows) |-> NpMin(rows[k])], <<>>)

\* hhvbars(s, n)
HhvbarsFunc(series, n) ==
    IF NpFullRaises(Len(series) - n) THEN FormulaException
    ELSE LET rows == RollingWindow(series, n)
         IN  Series([k \in 1..Len(rows) |-> NpArgMax(rows[k])], <<>>)

\* llvbars(s, n)
LlvbarsFunc(series, n) ==
    IF NpFullRaises(Len(series) - n) THEN FormulaException
    ELSE LET rows == RollingWindow(series, n)
         IN  Series([k \in 1..Len(rows) |-> NpArgMin(rows[k])], <<>>)

Hhv(n) ==
    /\ call.op = "none"
    /\ call' = [op |-> "hhv", n |-> n]
    /\ ret' = HhvFunc(buf, n)
    /\ UNCHANGED <<buf, low, close, cond, pre, z_in_p, m, pc, i, count>>

Llv(n) ==
    /\ call.op = "none"
    /\ call' = [op |-> "llv", n |-> n]
    /\ ret' = LlvFunc(buf, n)
    /\ UNCHANGED <<buf, low, close, cond, pre, z_in_p, m, pc, i, count>>

Hhvbars(n) ==
    /\ call.op = "none"
    /\ call' = [op |-> "hhvbars", n |-> n]
    /\ ret' = HhvbarsFunc(buf, n)
    /\ UNCHANGED <<buf, low, close, cond, pre, z_in_p, m, pc, i, count>>

Llvbars(n) ==
    /\ call.op = "none"
    /\ call' = [op |-> "llvbars", n |-> n]
    /\ ret' = LlvbarsFunc(buf, n)
    /\ UNCHANGED <<buf, low, close, cond, pre, z_in_p, m, pc, i, count>>

WinVals == {Fin(1), Fin(2), Fin(3), Fin(4), Fin(5), NaN}
WindowOps == {"hhv", "llv", "hhvbars", "llvbars"}

InitWindow ==
    /\ buf \in SeqsUpTo(WinVals, 0, MaxWinLen)
    /\ low = <<>> /\ close = <<>> /\ cond = <<>>
    /\ call = NoCall
    /\ pre = Snapshot
    /\ ret = NoRet
    /\ ZigIdle

NextWindow ==
    \/ \E n \in 1..(MaxWinLen + 1) : Hhv(n)
    \/ \E n \in 1..(MaxWinLen + 1) : Llv(n)
    \/ \E n \in 1..(MaxWinLen + 1) : Hhvbars(n)
    \/ \E n \in 1..(MaxWinLen + 1) : Llvbars(n)

SpecWindow == InitWindow /\ [][NextWindow]_vars

----------------------------------------------------------------------------
(* CrossOver *)

\* The last len elements of a.
LastN(a, len) == Slice(a, Len(a) - len, Len(a))

\* fit_series(a, b), of funcat.time_series: both trimmed to the shorter
\* length, each keeping its most recent elements.
FitSeries(a, b) ==
    LET len == Min2(Len(a), Len(b))
    IN  <<LastN(a, len), LastN(b, len)>>

\* s[k].series, of funcat.time_series: the series as it stood k bars ago,
\* which is the array without its last k elements.
RefSeries(a, k) == Slice(a, 0, Len(a) - k)

\* series1 > series2, elementwise
CrossCond1(series1, series2) ==
    [j \in 1..Len(series1) |-> FGt(series1[j], series2[j])]

CrossCond2Strict(series1, series2) ==
    [j \in 1..Len(series1) |-> FLt(series1[j], series2[j])]

\* series1 <= series2, elementwise
CrossCond2(series1, series2) ==
    [j \in 1..Len(series1) |-> FLe(series1[j], series2[j])]

\* CrossOver(s1, s2), as the array of the BoolSeries it returns.
CrossOverFunc(s1, s2) ==
    LET now == FitSeries(s1, s2)
        cond1 == CrossCond1(now[1], now[2])
        before == FitSeries(RefSeries(s1, 1), RefSeries(s2, 1))
        cond2 == CrossCond2(before[1], before[2])
        fitted == FitSeries(cond1, cond2)
    IN  [j \in 1..Len(fitted[1]) |-> fitted[1][j] /\ fitted[2][j]]

CrossOver ==
    /\ call.op = "none"
    /\ call' = [op |-> "CrossOver", n |-> 0]
    /\ ret' = Series(CrossOverFunc(buf, low), <<>>)
    /\ UNCHANGED <<buf, low, close, cond, pre, z_in_p, m, pc, i, count>>

CrossVals == {Fin(1), Fin(2), Fin(3), NaN}

InitCross ==
    /\ buf \in SeqsUpTo(CrossVals, 1, MaxLen)
    /\ low \in SeqsUpTo(CrossVals, 1, MaxLen)
    /\ close = <<>> /\ cond = <<>>
    /\ call = NoCall
    /\ pre = Snapshot
    /\ ret = NoRet
    /\ ZigIdle

NextCross == CrossOver

SpecCross == InitCross /\ [][NextCross]_vars

----------------------------------------------------------------------------
(* troughbars *)

\* The value range(len(z_in_p) - 1, 1, -1) yields next, given the last one.
RangeNext(j, len) == IF j = Unbound THEN len - 1 ELSE j - 1

RangeHasNextDownToOne(v) == v > 0

\* Whether v is still inside range(len(z_in_p) - 1, 1, -1): the stop, 1, is
\* excluded.
RangeHasNext(v) == v > 1

PivotLists == SeqsUpTo({1, 2, 3}, 0, MaxPivots)

\* troughbars(s, n, m) up to the for statement: zig_helper, of funcat.helper,
\* supplies the pivots, whose values are p.
TroughbarsCall(p, mm) ==
    /\ pc = "idle"
    /\ call' = [op |-> "troughbars", n |-> mm]
    /\ z_in_p' = p
    /\ m' = mm
    /\ count' = 0
    /\ i' = Unbound
    /\ pc' = "for"
    /\ UNCHANGED <<buf, low, close, cond, pre, ret>>

\* An iteration that ends in "return i".
TroughbarsReturn ==
    /\ pc = "for"
    /\ RangeHasNext(RangeNext(i, Len(z_in_p)))
    /\ i' = RangeNext(i, Len(z_in_p))
    /\ count = m
    /\ ret' = Index(i')
    /\ pc' = "done"
    /\ UNCHANGED <<buf, low, close, cond, call, pre, z_in_p, m, count>>

\* An iteration that runs to the end of the loop body.
TroughbarsStep ==
    /\ pc = "for"
    /\ RangeHasNext(RangeNext(i, Len(z_in_p)))
    /\ i' = RangeNext(i, Len(z_in_p))
    /\ count # m
    /\ count' = IF At(z_in_p, i') < At(z_in_p, i' - 1) THEN count + 1 ELSE count
    /\ UNCHANGED <<buf, low, close, cond, call, pre, ret, z_in_p, m, pc>>

\* The range is exhausted: "return 0".
TroughbarsExhausted ==
    /\ pc = "for"
    /\ ~RangeHasNext(RangeNext(i, Len(z_in_p)))
    /\ ret' = Index(0)
    /\ pc' = "done"
    /\ UNCHANGED <<buf, low, close, cond, call, pre, z_in_p, m, i, count>>

InitZig ==
    /\ buf = <<>> /\ low = <<>> /\ close = <<>> /\ cond = <<>>
    /\ call = NoCall
    /\ pre = Snapshot
    /\ ret = NoRet
    /\ ZigIdle

NextZig ==
    \/ \E p \in PivotLists, mm \in 0..MaxM : TroughbarsCall(p, mm)
    \/ TroughbarsReturn
    \/ TroughbarsStep
    \/ TroughbarsExhausted

SpecZig == InitZig /\ [][NextZig]_vars

----------------------------------------------------------------------------
(* Claims *)

\* C1: constructing a transform series from a NumericSeries leaves every
\* element of the caller's arrays as it was before the construction.
TransformLeavesInputUnchanged ==
    call.op \in TransformOps =>
        buf = pre.buf /\ low = pre.low /\ close = pre.close

\* The number of true values among cond[lo .. hi] (Python indices, inclusive).
TruesBetween(lo, hi) == Cardinality({j \in lo..hi : At(cond, j) = TRUE})

\* C2: for 1 <= n < L, count(cond, n) is a series of length L - n whose
\* element k, k = 0 included, is the number of true values among
\* cond[k+1 .. k+n].
CountEqualsWindowTrues ==
    (call.op = "count" /\ 1 <= call.n /\ call.n < Len(cond)) =>
        /\ ret.kind = "series"
        /\ Len(ret.val) = Len(cond) - call.n
        /\ \A k \in 0..(Len(cond) - call.n - 1) :
               At(ret.val, k) = TruesBetween(k + 1, k + call.n)

\* Whether buf[k .. k+n-1] (Python indices) holds no NaN.
WindowDefined(k, n) == \A j \in 0..(n - 1) : ~IsNaN(At(buf, k + j))

\* Whether v is the greatest (hi) or the least (~hi) of buf[k .. k+n-1].
IsExtreme(v, k, n, hi) ==
    \A j \in 0..(n - 1) :
        IF hi THEN ~FLt(v, At(buf, k + j)) ELSE ~FLt(At(buf, k + j), v)

WindowBeyondLengthRaises ==
    (call.op \in WindowOps /\ call.n > Len(buf)) => ret = FormulaException

WindowBeyondLengthWitness ==
    /\ call.op = "llvbars"
    /\ Len(buf) >= 1
    /\ call.n > Len(buf)
    /\ ret.kind = "error"

\* The input with every NaN, +Inf and -Inf replaced by 0.
ZeroNonFinite(a) == [j \in 1..Len(a) |-> IF IsFinite(a[j]) THEN a[j] ELSE Fin(0)]

\* result[0] = x[0], result[j] = ((n - 1) * result[j-1] + x[j]) / n.
Recurrence(x, n) ==
    LET r[j \in 1..Len(x)] ==
            IF j = 1 THEN x[1]
            ELSE FDivInt(FAdd(FMulInt(n - 1, r[j - 1]), x[j]), n)
    IN  [j \in 1..Len(x) |-> r[j]]

\* C5: for len >= 1 and n > 0, SMASeries produces a series of the input's
\* length that follows the recurrence over the input with every NaN, +Inf
\* and -Inf replaced by 0.
SMAFollowsZeroedRecurrence ==
    (call.op = "SMA" /\ call.n > 0 /\ Len(pre.buf) >= 1) =>
        /\ ret.kind = "series"
        /\ Len(ret.val) = Len(pre.buf)
        /\ ret.val = Recurrence(ZeroNonFinite(pre.buf), call.n)

\* C6: SMASeries with n = 0 on an input of length >= 2 fails with an error
\* and yields no series.
SMARejectsZeroN ==
    (call.op = "SMA" /\ call.n = 0 /\ Len(pre.buf) >= 2) => ret.kind = "error"

\* The common trailing-aligned length of s1 and s2.
AlignedLen == Min2(Len(buf), Len(low))

\* s1 and s2 at aligned position j.
Aligned1(j) == At(buf, Len(buf) - AlignedLen + j)
Aligned2(j) == At(low, Len(low) - AlignedLen + j)

\* C7: when the aligned length L is >= 2, CrossOver(s1, s2) holds one value
\* for each aligned position 1 .. L-1, true at position j exactly when
\* s1[j] > s2[j] and s1[j-1] <= s2[j-1]; position 0 gets no value.
CrossOverIffCrossing ==
    (call.op = "CrossOver" /\ AlignedLen >= 2) =>
        /\ ret.kind = "series"
        /\ Len(ret.val) = AlignedLen - 1
        /\ \A j \in 1..(AlignedLen - 1) :
               At(ret.val, j - 1) =
                   (FGt(Aligned1(j), Aligned2(j)) /\ FLe(Aligned1(j - 1), Aligned2(j - 1)))

\* The example of C7 (true only at position 1), and one with s1 longer than
\* s2 and equal values on the bar before the crossing.
CrossOverWitness ==
    /\ call.op = "CrossOver"
    /\ \/ /\ buf = <<Fin(1), Fin(3), Fin(2)>>
          /\ low = <<Fin(2), Fin(2), Fin(2)>>
          /\ ret.val = <<TRUE, FALSE>>
       \/ /\ buf = <<Fin(3), Fin(2), Fin(3)>>
          /\ low = <<Fin(2), Fin(2)>>
          /\ ret.val = <<TRUE>>

\* The scanned indices at which the pivot value is less than the one before.
Decreases == {j \in 2..(Len(z_in_p) - 1) : At(z_in_p, j) < At(z_in_p, j - 1)}

\* The index of the k-th decrease, counted from the most recent pivot backward.
KthDecrease(k) ==
    CHOOSE j \in Decreases : Cardinality({l \in Decreases : l >= j}) = k

\* C8: for m >= 1, if the scanned range holds at least m decreases,
\* troughbars returns the index of the m-th decrease counted backward.
TroughbarsReturnsMthDecrease ==
    (pc = "done" /\ m >= 1 /\ Cardinality(Decreases) >= m) =>
        ret = Index(KthDecrease(m))

\* C9: if the scanned range holds fewer than m decreases troughbars returns
\* 0, and the loop variable is never 0 or 1.
TroughbarsZeroWhenFewDecreases ==
    /\ i = Unbound \/ i >= 2
    /\ (pc = "done" /\ Cardinality(Decreases) < m) => ret = Index(0)

TroughbarsZeroWitness ==
    /\ pc = "done"
    /\ Len(z_in_p) = MaxPivots
    /\ Cardinality(Decreases) >= 1
    /\ Cardinality(Decreases) < m
    /\ i = 2
    /\ ret = Index(0)

\* C10: count and every, called with a window n <= 0, fail with an error and
\* return no series.
CountRejectsNonPositiveWindow ==
    (call.op \in {"count", "every"} /\ call.n <= 0) => ret.kind = "error"

====
